---- MODULE Spec2Model ----
(***************************************************************************)
(* Model of src/model_parser/catboost.py (class CatBoostParser):           *)
(*   _get_trees        - unravels every oblivious tree of the CatBoost     *)
(*                       JSON dump into heap-indexed node arrays;          *)
(*   get_node_weights  - recomputes the node weights of every tree from    *)
(*                       the leaf assignment of a data set.                *)
(*                                                                         *)
(* Python lists and numpy arrays are functions over 0 .. n-1, so that the  *)
(* indices of the model are the indices of the source.  Weights read from  *)
(* the JSON dump are exact integers (Python int); node values are exact    *)
(* rationals <<numerator, denominator>> in lowest terms, the exact         *)
(* counterpart of the float64 arithmetic of numpy.  The numpy int32        *)
(* arithmetic of get_node_weights keeps its width.                         *)
(***************************************************************************)
EXTENDS Integers, FiniteSets, Sequences, TLC

VARIABLES
    json_cb_model,         \* json_cb_model['oblivious_trees'], a 0-based list
    pc,                    \* position of the program
    tree_index,            \* loop variable of _get_trees
    trees,                 \* local list `trees` of _get_trees
    self_trees,            \* self.trees, set by parse from _get_trees
    sample_weights,        \* get_node_weights: sample_weights after line 136
    leaf_indexes,          \* get_node_weights: leaf_indexes[obs][tree]
    it,                    \* get_node_weights: state of the range iterator of line 144
    index,                 \* get_node_weights: the variable `index` (lines 144 and 153)
    node_weights,          \* get_node_weights: the list node_weights
    result                 \* value returned by get_node_weights

vars == <<json_cb_model, pc, tree_index, trees, self_trees, sample_weights,
          leaf_indexes, it, index, node_weights, result>>

gnw_vars == <<sample_weights, leaf_indexes, it, index, node_weights, result>>

(***************************************************************************)
(* Bounds of the model                                                     *)
(***************************************************************************)
MaxWeight == 2       \* leaf weights of the single-tree models are 0 .. MaxWeight
MaxTrees == 2        \* ensembles have 1 .. MaxTrees trees
MaxObs == 2          \* data sets have 0 .. MaxObs observations
MaxLeaves == 8       \* leaf_weights of the split model has 1 .. MaxLeaves entries
MaxSplits == 3       \* the split list of the split model has 0 .. MaxSplits entries

LeafCounts == {1, 2, 4}          \* well-formed leaf counts 2^D, D = 0, 1, 2
ValueSet == {1, 2}               \* entries of leaf_values
ClassCounts == {1, 2}            \* n_class

(***************************************************************************)
(* 0-based lists                                                           *)
(***************************************************************************)
Len0(a) == Cardinality(DOMAIN a)

Empty0 == [i \in {} |-> 0]

Concat0(a, b) ==
    LET la == Len0(a)
    IN  [i \in 0 .. la + Len0(b) - 1 |-> IF i < la THEN a[i] ELSE b[i - la]]

Repeat0(x, n) == [i \in 0 .. n - 1 |-> x]

Reverse0(a) == LET n == Len0(a) IN [i \in 0 .. n - 1 |-> a[n - 1 - i]]

Append0(a, x) == Concat0(a, Repeat0(x, 1))

Lists(n, S) == [0 .. n - 1 -> S]

RECURSIVE Pow2(_)
Pow2(n) == IF n <= 0 THEN 1 ELSE 2 * Pow2(n - 1)

RECURSIVE SumUpTo(_, _)
SumUpTo(a, n) == IF n <= 0 THEN 0 ELSE SumUpTo(a, n - 1) + a[n - 1]

\* Python's sum(list): left-to-right sum starting from 0
SumList(a) == SumUpTo(a, Len0(a))

(***************************************************************************)
(* Exact rationals <<n, d>>, d > 0, in lowest terms                        *)
(***************************************************************************)
Abs(x) == IF x < 0 THEN -x ELSE x

RECURSIVE Gcd(_, _)
Gcd(a, b) == IF b = 0 THEN a ELSE Gcd(b, a % b)

Norm(n, d) ==
    LET g == Gcd(Abs(n), Abs(d))
        s == IF d < 0 THEN -1 ELSE 1
    IN  <<(s * n) \div g, (s * d) \div g>>

Rat(k) == <<k, 1>>
RAdd(p, q) == Norm(p[1] * q[2] + q[1] * p[2], p[2] * q[2])
RScale(k, q) == Norm(k * q[1], q[2])
RDivInt(q, k) == Norm(q[1], q[2] * k)

(***************************************************************************)
(* _get_trees, lines 62-67: node weights                                   *)
(***************************************************************************)
RECURSIVE WeightLoop(_, _)
WeightLoop(a, idx) ==
    IF idx <= 0 THEN a
    ELSE WeightLoop([a EXCEPT ![idx] = a[2 * idx + 1] + a[2 * idx + 2]], idx - 1)

\* mutant: the root is left to the propagation loop, which stops above it
LeafWeightsUnraveledNoRoot(leaf_weights) ==
    LET L == Len0(leaf_weights)
    IN  WeightLoop(Concat0(Repeat0(0, L - 1), leaf_weights), L - 2)

LeafWeightsUnraveled(leaf_weights) ==
    LET L == Len0(leaf_weights)
        a0 == Concat0(Repeat0(0, L - 1), leaf_weights)
        a1 == [a0 EXCEPT ![0] = SumList(leaf_weights)]
    IN  WeightLoop(a1, L - 2)

(***************************************************************************)
(* _get_trees, lines 72-84: node values                                    *)
(***************************************************************************)
NClass(leaf_values, leaf_weights) == Len0(leaf_values) \div Len0(leaf_weights)

\* np.array(leaf_values).reshape(L, n_class) raises ValueError unless the sizes agree
ReshapeOk(leaf_values, L, n_class) == Len0(leaf_values) = L * n_class

Reshape(leaf_values, L, n_class) ==
    [j \in 0 .. L - 1 |-> [c \in 0 .. n_class - 1 |-> Rat(leaf_values[j * n_class + c])]]

\* mutant: plain mean of the two children instead of the weighted mean
NodeValueUnweighted(w, v, idx, n_class) ==
    IF w[2 * idx + 1] + w[2 * idx + 2] = 0
    THEN [c \in 0 .. n_class - 1 |-> Rat(-1)]
    ELSE [c \in 0 .. n_class - 1 |->
            RDivInt(RAdd(v[2 * idx + 1][c], v[2 * idx + 2][c]), 2)]

\* lines 78-84: the value written to node idx
NodeValue(w, v, idx, n_class) ==
    IF w[2 * idx + 1] + w[2 * idx + 2] = 0
    THEN [c \in 0 .. n_class - 1 |-> Rat(-1)]
    ELSE [c \in 0 .. n_class - 1 |->
            RDivInt(RAdd(RScale(w[2 * idx + 1], v[2 * idx + 1][c]),
                         RScale(w[2 * idx + 2], v[2 * idx + 2][c])),
                    w[2 * idx + 1] + w[2 * idx + 2])]

RECURSIVE ValueLoop(_, _, _, _)
ValueLoop(w, v, idx, n_class) ==
    IF idx < 0 THEN v
    ELSE ValueLoop(w, [v EXCEPT ![idx] = NodeValue(w, v, idx, n_class)], idx - 1, n_class)

\* mutant: the value loop stops above the root, as the weight loop does
LeafValuesUnraveledNoRoot(w, leaf_values, L, n_class) ==
    LET v0 == Concat0(Repeat0([c \in 0 .. n_class - 1 |-> Rat(0)], L - 1),
                      Reshape(leaf_values, L, n_class))
        v1 == ValueLoop(w, v0, L - 2, n_class)
    IN  IF L >= 2 THEN [v1 EXCEPT ![0] = v0[0]] ELSE v1

LeafValuesUnraveled(w, leaf_values, L, n_class) ==
    LET v0 == Concat0(Repeat0([c \in 0 .. n_class - 1 |-> Rat(0)], L - 1),
                      Reshape(leaf_values, L, n_class))
    IN  ValueLoop(w, v0, L - 2, n_class)

(***************************************************************************)
(* _get_trees, lines 86-93: child pointers                                 *)
(***************************************************************************)
ChildrenLeft(L) == [i \in 0 .. L - 2 |-> i * 2 + 1]

\* mutant: range(len(leaf_weights) - 1) instead of range(1, len(leaf_weights))
ChildrenRightFromZero(L) == [i \in 0 .. L - 2 |-> i * 2]

ChildrenRight(L) == [k \in 0 .. L - 2 |-> (k + 1) * 2]

ChildrenDefault(L) == [i \in 0 .. L - 2 |-> i * 2 + 1]

(***************************************************************************)
(* _get_trees, lines 97-120: split features and borders                    *)
(***************************************************************************)
SplitFeatureIndexOf(elem) ==
    IF elem.split_type = "FloatFeature" THEN elem.float_feature_index
    ELSE IF elem.split_type = "OneHotFeature" THEN elem.cat_feature_index
    ELSE elem.ctr_target_border_idx

BorderOf(elem) ==
    IF elem.split_type = "FloatFeature" THEN elem.border
    ELSE IF elem.split_type = "OneHotFeature" THEN elem.value
    ELSE elem.border

SplitFeaturesIndex(splits) == [k \in DOMAIN splits |-> SplitFeatureIndexOf(splits[k])]

Borders(splits) == [k \in DOMAIN splits |-> BorderOf(splits[k])]

\* for counter, x in enumerate(lst): acc += [x] * (2 ** counter)
RECURSIVE UnravelLoop(_, _, _)
UnravelLoop(lst, counter, acc) ==
    IF counter >= Len0(lst) THEN acc
    ELSE UnravelLoop(lst, counter + 1, Concat0(acc, Repeat0(lst[counter], Pow2(counter))))

\* mutant: the list is enumerated in serialized order, without [::-1]
SplitFeaturesIndexUnraveledNoReverse(split_features_index) ==
    UnravelLoop(split_features_index, 0, Empty0)

SplitFeaturesIndexUnraveled(split_features_index) ==
    UnravelLoop(Reverse0(split_features_index), 0, Empty0)

\* mutant: the borders are enumerated in serialized order, without [::-1]
BordersUnraveledNoReverse(borders) == UnravelLoop(borders, 0, Empty0)

BordersUnraveled(borders) == UnravelLoop(Reverse0(borders), 0, Empty0)

(***************************************************************************)
(* _get_trees, lines 60-129: one iteration of the loop over the trees      *)
(***************************************************************************)
BinaryTree(t) ==
    LET L == Len0(t.leaf_weights)
        n_class == NClass(t.leaf_values, t.leaf_weights)
        w == LeafWeightsUnraveled(t.leaf_weights)
    IN  [children_left |-> ChildrenLeft(L),
         children_right |-> ChildrenRight(L),
         children_default |-> ChildrenDefault(L),
         split_features_index |-> SplitFeaturesIndexUnraveled(SplitFeaturesIndex(t.splits)),
         split_values |-> BordersUnraveled(Borders(t.splits)),
         values |-> LeafValuesUnraveled(w, t.leaf_values, L, n_class),
         train_node_weights |-> w]

n_trees == Len0(json_cb_model)

GetTreesIter ==
    /\ pc = "get_trees"
    /\ tree_index < n_trees
    /\ LET t == json_cb_model[tree_index]
       IN  IF ReshapeOk(t.leaf_values, Len0(t.leaf_weights), NClass(t.leaf_values, t.leaf_weights))
           THEN /\ trees' = Append0(trees, BinaryTree(t))
                /\ tree_index' = tree_index + 1
                /\ pc' = "get_trees"
           ELSE /\ pc' = "ValueError"
                /\ UNCHANGED <<trees, tree_index>>
    /\ UNCHANGED <<json_cb_model, self_trees>>
    /\ UNCHANGED gnw_vars

\* line 130 and line 48: return trees; self.trees = ...
GetTreesReturn ==
    /\ pc = "get_trees"
    /\ tree_index = n_trees
    /\ self_trees' = trees
    /\ pc' = "parsed"
    /\ UNCHANGED <<json_cb_model, tree_index, trees>>
    /\ UNCHANGED gnw_vars

(***************************************************************************)
(* get_node_weights, lines 132-158                                         *)
(***************************************************************************)
MaxInt32 == 2147483647

\* numpy int32 addition: the sum modulo 2^32, as a signed 32-bit integer
Add32(a, b) ==
    IF a >= 0 /\ b >= 0 /\ a > MaxInt32 - b
    THEN (a - MaxInt32) + (b - MaxInt32) - 2
    ELSE IF a < 0 /\ b < 0 /\ a < (-MaxInt32 - 1) - b
    THEN (a + MaxInt32) + (b + MaxInt32) + 2
    ELSE a + b

\* an observation weight (float64): big * 2^30 + halves / 2
W(b, h) == [big |-> b, halves |-> h]

\* np.sum(..., dtype=np.int32) casts every float64 operand to int32
\* (truncation toward zero) before adding
Int32Cast(x) == x.big * Pow2(30) + x.halves \div 2

\* np.sum(sample_weights[leaf_indexes[:, t] == j], dtype=np.int32), over the
\* first n observations
RECURSIVE Sum32(_, _, _, _, _)
Sum32(sw, li, t, j, n) ==
    IF n <= 0 THEN 0
    ELSE IF li[n - 1][t] = j
         THEN Add32(Sum32(sw, li, t, j, n - 1), Int32Cast(sw[n - 1]))
         ELSE Sum32(sw, li, t, j, n - 1)

\* BinaryTree.n_leaves of single_tree.py: a tree of 2^(D+1) - 1 nodes has 2^D leaves
n_leaves(tree) == (Len0(tree.train_node_weights) + 1) \div 2

\* lines 148-149
LeafSampleWeightsInTree(sw, li, t, n) ==
    [j \in 0 .. n - 1 |-> Sum32(sw, li, t, j, Len0(sw))]

\* lines 153-154
RECURSIVE NodeWeightLoop(_, _)
NodeWeightLoop(a, idx) ==
    IF idx < 0 THEN a
    ELSE NodeWeightLoop([a EXCEPT ![idx] = Add32(a[2 * idx + 1], a[2 * idx + 2])], idx - 1)

\* lines 152-154
NodeWeightsInTree(leaf_sample_weights_in_tree) ==
    LET n == Len0(leaf_sample_weights_in_tree)
    IN  NodeWeightLoop(Concat0(Repeat0(0, n - 1), leaf_sample_weights_in_tree), n - 2)

\* mutant: the loop over the trees continues from the variable `index`
OuterAdvanceFromIndex(iter, idx) == idx + 1

\* line 144: the range iterator advances on its own, whatever `index` holds
OuterAdvance(iter, idx) == iter + 1

ObsWeightSet == {W(0, 1), W(0, 2), W(1, 0)}       \* 0.5, 1.0, 2^30

\* calc_leaf_indexes: the rows an observation can get, one leaf per tree
LeafRows ==
    LET sizes == {n_leaves(self_trees[t]) : t \in DOMAIN self_trees}
        largest == CHOOSE m \in sizes : \A k \in sizes : k <= m
    IN  {r \in [DOMAIN self_trees -> 0 .. largest - 1] :
            \A t \in DOMAIN self_trees : r[t] < n_leaves(self_trees[t])}

\* lines 135-143
GetNodeWeightsCall ==
    /\ pc = "parsed"
    /\ \E n_obs \in 0 .. MaxObs :
         \E is_none \in BOOLEAN, sw \in Lists(n_obs, ObsWeightSet), li \in Lists(n_obs, LeafRows) :
            /\ sample_weights' = IF is_none THEN Repeat0(W(0, 2), n_obs) ELSE sw
            /\ leaf_indexes' = li
    /\ node_weights' = Empty0
    /\ it' = 0
    /\ pc' = "gnw_for"
    /\ UNCHANGED <<json_cb_model, tree_index, trees, self_trees, index, result>>

\* lines 144-157: one iteration of the loop over the trees
GetNodeWeightsIter ==
    /\ pc = "gnw_for"
    /\ it < n_trees
    /\ LET tree == self_trees[it]
           leaf_sample_weights_in_tree ==
               LeafSampleWeightsInTree(sample_weights, leaf_indexes, it, n_leaves(tree))
           last == IF Len0(leaf_sample_weights_in_tree) >= 2 THEN 0 ELSE it
       IN  /\ node_weights' = Append0(node_weights, NodeWeightsInTree(leaf_sample_weights_in_tree))
           /\ index' = last
           /\ it' = OuterAdvance(it, last)
    /\ UNCHANGED <<json_cb_model, pc, tree_index, trees, self_trees,
                   sample_weights, leaf_indexes, result>>

\* line 158
GetNodeWeightsReturn ==
    /\ pc = "gnw_for"
    /\ it >= n_trees
    /\ result' = node_weights
    /\ pc' = "returned"
    /\ UNCHANGED <<json_cb_model, tree_index, trees, self_trees,
                   sample_weights, leaf_indexes, it, index, node_weights>>

(***************************************************************************)
(* Inputs                                                                  *)
(***************************************************************************)
FloatSplit(f, b) == [split_type |-> "FloatFeature", float_feature_index |-> f, border |-> b]
OneHotSplit(f, x) == [split_type |-> "OneHotFeature", cat_feature_index |-> f, value |-> x]
CtrSplit(f, b) == [split_type |-> "OnlineCtr", ctr_target_border_idx |-> f, border |-> b]

SplitSet == {FloatSplit(0, 5), FloatSplit(1, 6), OneHotSplit(0, 7), CtrSplit(2, 5)}

\* depth implied by a well-formed leaf count
RECURSIVE Log2(_)
Log2(L) == IF L <= 1 THEN 0 ELSE 1 + Log2(L \div 2)

\* the split list of a well-formed tree of the single-tree model: level k of
\* the serialized list holds descriptor k of a fixed list of distinct descriptors
FixedSplits(D) ==
    [k \in 0 .. D - 1 |-> IF k = 0 THEN FloatSplit(0, 5)
                          ELSE IF k = 1 THEN OneHotSplit(0, 7) ELSE CtrSplit(2, 5)]

InitCommon ==
    /\ pc = "get_trees"
    /\ tree_index = 0
    /\ trees = Empty0
    /\ self_trees = Empty0
    /\ sample_weights = Empty0
    /\ leaf_indexes = Empty0
    /\ it = 0
    /\ index = 0
    /\ node_weights = Empty0
    /\ result = Empty0

\* one well-formed tree, any leaf weights and leaf values
InitTree ==
    /\ \E L \in LeafCounts, n_class \in ClassCounts :
         \E lw \in Lists(L, 0 .. MaxWeight), lv \in Lists(L * n_class, ValueSet) :
            json_cb_model = Repeat0([leaf_weights |-> lw, leaf_values |-> lv,
                                     splits |-> FixedSplits(Log2(L))], 1)
    /\ InitCommon

\* one tree with any split list and any lengths of leaf_weights, leaf_values
\* and splits, well-formed or not; the contents of the leaves are fixed
InitSplits ==
    /\ \E L \in 1 .. MaxLeaves, S \in 0 .. MaxSplits :
         \E nv \in 0 .. 2 * L + 1, sp \in Lists(S, SplitSet) :
            json_cb_model = Repeat0([leaf_weights |-> [j \in 0 .. L - 1 |-> 1 + (j % 2)],
                                     leaf_values |-> [j \in 0 .. nv - 1 |-> 1 + (j % 2)],
                                     splits |-> sp], 1)
    /\ InitCommon

\* an ensemble of 1 .. MaxTrees well-formed trees of depth 0, 1 or 2
EnsTree(D) ==
    [leaf_weights |-> [j \in 0 .. Pow2(D) - 1 |-> IF j < 2 THEN 1 ELSE 0],
     leaf_values |-> [j \in 0 .. Pow2(D) - 1 |-> 1],
     splits |-> FixedSplits(D)]

InitEnsemble ==
    /\ \E n \in 1 .. MaxTrees :
         \E depths \in Lists(n, 0 .. 2) :
            json_cb_model = [t \in 0 .. n - 1 |-> EnsTree(depths[t])]
    /\ InitCommon

NextTrees == GetTreesIter \/ GetTreesReturn

Next ==
    \/ GetTreesIter
    \/ GetTreesReturn
    \/ GetNodeWeightsCall
    \/ GetNodeWeightsIter
    \/ GetNodeWeightsReturn

SpecTree == InitTree /\ [][NextTrees]_vars

SpecSplits == InitSplits /\ [][NextTrees]_vars

Spec == InitEnsemble /\ [][Next]_vars

(***************************************************************************)
(* Properties of _get_trees on one well-formed tree                        *)
(***************************************************************************)
Built == DOMAIN trees          \* the trees reconstructed so far

InLeafWeights(t) == json_cb_model[t].leaf_weights
InLeafValues(t) == json_cb_model[t].leaf_values
NLeaves(t) == Len0(InLeafWeights(t))
Internal(t) == 0 .. NLeaves(t) - 2
Classes(t) == 0 .. NClass(InLeafValues(t), InLeafWeights(t)) - 1

Sentinel(t) == [c \in Classes(t) |-> Rat(-1)]

\* C2: in every reconstructed tree, an internal node whose children have a
\* combined weight of zero holds the sentinel vector of -1, and any other
\* internal node holds, per class, the mean of the final values of its two
\* children weighted by their final weights.
C2_ValueAggregation ==
    \A t \in Built :
        LET w == trees[t].train_node_weights
            v == trees[t].values
        IN  \A i \in Internal(t) :
                IF w[2 * i + 1] + w[2 * i + 2] = 0
                THEN v[i] = Sentinel(t)
                ELSE \A c \in Classes(t) :
                        v[i][c] = RDivInt(RAdd(RScale(w[2 * i + 1], v[2 * i + 1][c]),
                                               RScale(w[2 * i + 2], v[2 * i + 2][c])),
                                          w[2 * i + 1] + w[2 * i + 2])

C2_Witness ==
    /\ pc = "parsed"
    /\ NLeaves(0) = 4
    /\ Classes(0) = {0, 1}
    /\ InLeafWeights(0) = [j \in 0 .. 3 |-> IF j < 2 THEN 0 ELSE j - 1]
    /\ self_trees[0].values[1] = Sentinel(0)
    /\ self_trees[0].values[0] # Sentinel(0)
    /\ self_trees[0].values[0][0] # self_trees[0].values[0][1]

\* C3: a reconstructed tree of 2^D leaves has 2^(D+1)-1 node weights and
\* node values, the input leaves sit in input order at the heap indices
\* 2^D - 1 .. 2^(D+1) - 2, and the child arrays give every internal node i
\* the children 2i+1 and 2i+2, inside the node array, with the left child
\* as default child.
C3_Layout ==
    \A t \in Built :
        LET T == trees[t]
            L == NLeaves(t)
            D == Log2(L)
            n_class == NClass(InLeafValues(t), InLeafWeights(t))
        IN  /\ L = Pow2(D)
            /\ DOMAIN T.train_node_weights = 0 .. Pow2(D + 1) - 2
            /\ DOMAIN T.values = 0 .. Pow2(D + 1) - 2
            /\ \A j \in 0 .. L - 1 :
                  /\ T.train_node_weights[Pow2(D) - 1 + j] = InLeafWeights(t)[j]
                  /\ \A c \in Classes(t) :
                        T.values[Pow2(D) - 1 + j][c] = Rat(InLeafValues(t)[j * n_class + c])
            /\ DOMAIN T.children_left = 0 .. Pow2(D) - 2
            /\ DOMAIN T.children_right = 0 .. Pow2(D) - 2
            /\ DOMAIN T.children_default = 0 .. Pow2(D) - 2
            /\ \A i \in 0 .. Pow2(D) - 2 :
                  /\ T.children_left[i] = 2 * i + 1
                  /\ T.children_right[i] = 2 * i + 2
                  /\ T.children_default[i] = T.children_left[i]
                  /\ T.children_right[i] \in DOMAIN T.train_node_weights

C3_Witness ==
    /\ pc = "parsed"
    /\ NLeaves(0) = 4
    /\ Classes(0) = {0, 1}
    /\ InLeafWeights(0)[0] # InLeafWeights(0)[3]
    /\ InLeafValues(0)[0] # InLeafValues(0)[1]
    /\ self_trees[0].children_right[2] = 6

\* heap indices of the leaves of the subtree rooted at node n, L leaves in all
RECURSIVE LeavesUnder(_, _)
LeavesUnder(n, L) ==
    IF n >= L - 1 THEN {n} ELSE LeavesUnder(2 * n + 1, L) \cup LeavesUnder(2 * n + 2, L)

RECURSIVE SumOver(_, _)
SumOver(S, f) ==
    IF S = {} THEN 0 ELSE LET x == CHOOSE y \in S : TRUE IN f[x] + SumOver(S \ {x}, f)

\* mean of the input leaf values of class c over the leaves of S, weighted by
\* the input leaf weights
WeightedMean(t, S, c) ==
    LET L == NLeaves(t)
        n_class == NClass(InLeafValues(t), InLeafWeights(t))
        wv == [l \in S |-> InLeafWeights(t)[l - (L - 1)]
                              * InLeafValues(t)[(l - (L - 1)) * n_class + c]]
        ww == [l \in S |-> InLeafWeights(t)[l - (L - 1)]]
    IN  Norm(SumOver(S, wv), SumOver(S, ww))

\* C9: every node of nonzero weight holds the leaf-weight-weighted mean of
\* the input leaf values over the leaves of its subtree; the sentinel branch
\* is taken, and the sentinel vector found, only at internal nodes whose
\* whole subtree has zero weight.
C9_SubtreeMean ==
    \A t \in Built :
        LET w == trees[t].train_node_weights
            v == trees[t].values
            L == NLeaves(t)
        IN  \A n \in DOMAIN w :
                /\ w[n] # 0 =>
                      \A c \in Classes(t) : v[n][c] = WeightedMean(t, LeavesUnder(n, L), c)
                /\ (\/ v[n] = Sentinel(t)
                    \/ (n \in Internal(t) /\ w[2 * n + 1] + w[2 * n + 2] = 0))
                      => /\ n \in Internal(t)
                         /\ \A l \in LeavesUnder(n, L) : w[l] = 0

C9_Witness ==
    /\ pc = "parsed"
    /\ NLeaves(0) = 4
    /\ InLeafWeights(0) = [j \in 0 .. 3 |-> IF j < 2 THEN 0 ELSE j - 1]
    /\ InLeafValues(0)[2] # InLeafValues(0)[3]
    /\ self_trees[0].values[1] = Sentinel(0)
    /\ self_trees[0].train_node_weights[0] = 3
    /\ self_trees[0].values[0][0] = self_trees[0].values[2][0]

(***************************************************************************)
(* Properties of the split arrays and of malformed input                   *)
(***************************************************************************)
InSplits(t) == json_cb_model[t].splits

\* the length invariants of the input of tree t: 2^D leaf weights, a positive
\* whole number of values per leaf, D split descriptors
WellFormed(t) ==
    LET L == NLeaves(t)
    IN  /\ L = Pow2(Log2(L))
        /\ Len0(InLeafValues(t)) >= L
        /\ Len0(InLeafValues(t)) % L = 0
        /\ Len0(InSplits(t)) = Log2(L)

HeapDepth(i) == Log2(i + 1)

\* internal-node slots of tree t that hold the feature index and the border
\* of descriptor k of the serialized list
SlotsOf(t, k) ==
    {i \in DOMAIN trees[t].split_features_index \cap DOMAIN trees[t].split_values :
        /\ trees[t].split_features_index[i] = SplitFeatureIndexOf(InSplits(t)[k])
        /\ trees[t].split_values[i] = BorderOf(InSplits(t)[k])}

Level(d) == Pow2(d) - 1 .. Pow2(d + 1) - 2

\* C4 as stated: descriptor k of the serialized list is found in exactly 2^k
\* slots, all of them on one level.
C4_Original ==
    \A t \in Built :
        WellFormed(t) =>
            \A k \in DOMAIN InSplits(t) :
                /\ Cardinality(SlotsOf(t, k)) = Pow2(k)
                /\ \A i, j \in SlotsOf(t, k) : HeapDepth(i) = HeapDepth(j)

DistinctSplits(t) ==
    \A k, m \in DOMAIN InSplits(t) :
        k # m => \/ SplitFeatureIndexOf(InSplits(t)[k]) # SplitFeatureIndexOf(InSplits(t)[m])
                 \/ BorderOf(InSplits(t)[k]) # BorderOf(InSplits(t)[m])

\* C4 as amended: descriptor k of the serialized list (leaf-adjacent level
\* first) is written to the 2^(D-1-k) slots of heap depth D-1-k, the level
\* k levels above the leaf-adjacent one, and, when the descriptors of the
\* list differ from one another, to no other slot.
C4_Broadcast ==
    \A t \in Built :
        WellFormed(t) =>
            LET D == Log2(NLeaves(t))
            IN  \A k \in DOMAIN InSplits(t) :
                    /\ Level(D - 1 - k) \subseteq SlotsOf(t, k)
                    /\ Cardinality(Level(D - 1 - k)) = Pow2(D - 1 - k)
                    /\ \A i \in Level(D - 1 - k) : HeapDepth(i) = D - 1 - k
                    /\ DistinctSplits(t) => SlotsOf(t, k) = Level(D - 1 - k)

C4_Witness ==
    /\ pc = "parsed"
    /\ WellFormed(0)
    /\ NLeaves(0) = 8
    /\ DistinctSplits(0)
    /\ InSplits(0)[0].split_type = "OneHotFeature"
    /\ Cardinality(SlotsOf(0, 0)) = 4
    /\ Cardinality(SlotsOf(0, 2)) = 1

\* C5: in a tree of depth D with D descriptors, the split arrays cover
\* exactly the 2^D - 1 internal nodes, and the internal nodes of one heap
\* depth all hold the feature index and the border of one and the same
\* descriptor of the serialized list.
C5_SplitSharing ==
    \A t \in Built :
        WellFormed(t) =>
            LET D == Log2(NLeaves(t))
                f == trees[t].split_features_index
                b == trees[t].split_values
            IN  /\ DOMAIN f = 0 .. Pow2(D) - 2
                /\ DOMAIN b = 0 .. Pow2(D) - 2
                /\ \A d \in 0 .. D - 1 :
                      /\ \A i, j \in Level(d) : f[i] = f[j] /\ b[i] = b[j]
                      /\ \E k \in DOMAIN InSplits(t) :
                            \A i \in Level(d) :
                                /\ f[i] = SplitFeatureIndexOf(InSplits(t)[k])
                                /\ b[i] = BorderOf(InSplits(t)[k])

C5_Witness ==
    /\ pc = "parsed"
    /\ WellFormed(0)
    /\ NLeaves(0) = 8
    /\ InSplits(0)[0] = FloatSplit(1, 6)
    /\ InSplits(0)[1] = CtrSplit(2, 5)
    /\ InSplits(0)[2] = OneHotSplit(0, 7)
    /\ self_trees[0].split_features_index[0] = 0
    /\ self_trees[0].split_values[6] = 6

\* C6 as stated: a tree is only ever built from input that satisfies the
\* length invariants (malformed input raises before any tree is returned).
C6_MalformedRejected ==
    \A t \in Built : WellFormed(t)

(***************************************************************************)
(* Properties of get_node_weights                                          *)
(***************************************************************************)
Obs == DOMAIN sample_weights

\* observations that column t of the leaf-assignment table sends to leaf j
AssignedTo(t, j) == {o \in Obs : leaf_indexes[o][t] = j}

\* the exact total of a set of observation weights, as big * 2^30 + halves / 2
ExactSum(S) ==
    W(SumOver(S, [o \in S |-> sample_weights[o].big]),
      SumOver(S, [o \in S |-> sample_weights[o].halves]))

\* the int32 x is the number big * 2^30 + halves / 2
EqExact(x, s) ==
    /\ s.halves % 2 = 0
    /\ s.big <= 1
    /\ x = s.big * Pow2(30) + s.halves \div 2

\* x is the plain sum of the int32 values a and b
PlainSum(x, a, b) ==
    /\ ~(a >= 0 /\ b >= 0 /\ a > MaxInt32 - b)
    /\ ~(a < 0 /\ b < 0 /\ a < (-MaxInt32 - 1) - b)
    /\ x = a + b

\* C7 as stated: every recomputed leaf weight is the plain numeric sum of
\* the weights of the observations assigned to that leaf, and every internal
\* node weight is the sum of the weights of its two children.
C7_PlainNumericSum ==
    pc = "returned" =>
        \A t \in DOMAIN result :
            LET L == n_leaves(self_trees[t])
            IN  /\ \A j \in 0 .. L - 1 :
                      EqExact(result[t][L - 1 + j], ExactSum(AssignedTo(t, j)))
                /\ \A i \in 0 .. L - 2 :
                      PlainSum(result[t][i], result[t][2 * i + 1], result[t][2 * i + 2])

\* the observations reproduce the leaf weights of tree t
ReproducesLeafWeights(t) ==
    \A j \in DOMAIN InLeafWeights(t) :
        ExactSum(AssignedTo(t, j)) = W(0, 2 * InLeafWeights(t)[j])

\* C8 as stated: for a tree whose leaf weights the observations reproduce,
\* the recomputed weight array is the train_node_weights array of _get_trees.
C8_RecomputationConsistency ==
    pc = "returned" =>
        \A t \in DOMAIN result :
            ReproducesLeafWeights(t) =>
                /\ DOMAIN result[t] = DOMAIN self_trees[t].train_node_weights
                /\ \A n \in DOMAIN result[t] :
                      result[t][n] = self_trees[t].train_node_weights[n]

RECURSIVE SetSum32(_, _)
SetSum32(S, f) ==
    IF S = {} THEN 0
    ELSE LET x == CHOOSE y \in S : TRUE IN Add32(f[x], SetSum32(S \ {x}, f))

\* the int32 weight of node n of tree t, from column t alone: the int32
\* total of the observations whose leaf lies under n
FromColumn(t, n) ==
    LET L == n_leaves(self_trees[t])
        under == {o \in Obs : leaf_indexes[o][t] + (L - 1) \in LeavesUnder(n, L)}
    IN  SetSum32(under, [o \in under |-> Int32Cast(sample_weights[o])])

\* C10: the loop over the trees appends exactly one array per tree, in tree
\* order: while it runs, the trees 0 .. it-1 are done, and array t has
\* 2 * n_leaves(t) - 1 entries, each computed from column t of the leaf
\* assignment and from tree t; the list returned has one array per tree.
C10_OneArrayPerTree ==
    /\ pc = "gnw_for" => /\ it <= n_trees
                         /\ DOMAIN node_weights = 0 .. it - 1
    /\ pc \in {"gnw_for", "returned"} =>
          \A t \in DOMAIN node_weights :
              /\ t < n_trees
              /\ DOMAIN node_weights[t] = 0 .. 2 * Len0(InLeafWeights(t)) - 2
              /\ Len0(node_weights[t]) = 2 * n_leaves(self_trees[t]) - 1
              /\ \A n \in DOMAIN node_weights[t] : node_weights[t][n] = FromColumn(t, n)
    /\ pc = "returned" => /\ result = node_weights
                          /\ DOMAIN result = 0 .. n_trees - 1

C10_Witness ==
    /\ pc = "returned"
    /\ n_trees = 2
    /\ n_leaves(self_trees[0]) = 4
    /\ n_leaves(self_trees[1]) = 1
    /\ index = 1
    /\ Obs = {0, 1}
    /\ leaf_indexes[0][0] = 3
    /\ leaf_indexes[1][0] = 0
    /\ sample_weights[0] = W(0, 2)
    /\ sample_weights[1] = W(0, 2)
    /\ result[0] = [n \in 0 .. 6 |-> IF n \in {0, 3, 6} THEN IF n = 0 THEN 2 ELSE 1
                                      ELSE IF n \in {1, 2} THEN 1 ELSE 0]
    /\ result[1] = [n \in {0} |-> 2]

====
